---- MODULE Spec2Model ----
(***************************************************************************)
(* The capability records of crates/rmcp/src/model/capabilities.rs and the *)
(* typestate builders the builder! macro generates for ServerCapabilities  *)
(* and ClientCapabilities.                                                 *)
(*                                                                         *)
(* A builder is a record [state, fields]: state is the tuple of const      *)
(* generic booleans of <Target>BuilderState (the compile-time tag, one bit *)
(* per field), fields holds the Option<T> of every field.  An impl block   *)
(* that exists only for some specialisation of the tag is an action whose  *)
(* guard reads the tag.  Option<T> is a set with at most one element.      *)
(***************************************************************************)
EXTENDS Naturals, Sequences, FiniteSets, TLC

\* Number of non-default sample values per opaque field type that callers
\* pass to enable_<field>_with.
NumVals == 1

-----------------------------------------------------------------------------
(* Option<T> *)

None == {}

Some(v) == {v}

IsSome(o) == o # {}

Unwrap(o) == CHOOSE v \in o : TRUE

OptBool == {None, Some(TRUE), Some(FALSE)}

-----------------------------------------------------------------------------
(* The record types and their Default values *)

\* JsonObject: a map from keys to JSON values; sample i has i entries.
JsonObject(i) == [k \in 1..i |-> "v"]

JsonObjectDefault == JsonObject(0)

\* ExperimentalCapabilities = BTreeMap<String, JsonObject>
ExperimentalCapabilities(i) == [k \in 1..i |-> JsonObject(k - 1)]

ExperimentalCapabilitiesDefault == ExperimentalCapabilities(0)

PromptsCapability == [list_changed : OptBool]

PromptsCapabilityDefault == [list_changed |-> None]

ResourcesCapability == [subscribe : OptBool, list_changed : OptBool]

ResourcesCapabilityDefault == [subscribe |-> None, list_changed |-> None]

ToolsCapability == [list_changed : OptBool]

ToolsCapabilityDefault == [list_changed |-> None]

RootsCapabilities == [list_changed : OptBool]

RootsCapabilitiesDefault == [list_changed |-> None]

\* TasksCapability; sample i supports i request categories.
TasksCapabilitySample(i) ==
    [requests |-> Some([k \in 1..i |-> TRUE]), list |-> Some(TRUE), cancel |-> Some(FALSE)]

TasksCapabilityDefault == [requests |-> None, list |-> None, cancel |-> None]

FormElicitationCapability == [schema_validation : OptBool]

FormElicitationCapabilityDefault == [schema_validation |-> None]

\* UrlElicitationCapability is a struct without fields: the only value.
UrlElicitationCapabilityDefault == <<>>

ElicitationCapability ==
    [form : {None} \cup {Some(c) : c \in FormElicitationCapability},
     url : {None, Some(UrlElicitationCapabilityDefault)},
     schema_validation : OptBool]

ElicitationCapabilityDefault == [form |-> None, url |-> None, schema_validation |-> None]

form_only ==
    [form |-> Some(FormElicitationCapabilityDefault), url |-> None, schema_validation |-> None]

\* Mutant: url_only() also fills form
url_only_with_form ==
    [form |-> Some(FormElicitationCapabilityDefault),
     url |-> Some(UrlElicitationCapabilityDefault), schema_validation |-> None]

url_only ==
    [form |-> None, url |-> Some(UrlElicitationCapabilityDefault), schema_validation |-> None]

\* Mutant: both() fills form with schema validation switched on
both_validating ==
    [form |-> Some([schema_validation |-> Some(TRUE)]),
     url |-> Some(UrlElicitationCapabilityDefault), schema_validation |-> None]

both ==
    [form |-> Some(FormElicitationCapabilityDefault),
     url |-> Some(UrlElicitationCapabilityDefault), schema_validation |-> None]

supports_form(c) == IsSome(c.form)

supports_url(c) == IsSome(c.url)

-----------------------------------------------------------------------------
(* The two builder! invocations: the ordered field lists *)

ServerFields ==
    <<"experimental", "logging", "completions", "prompts", "resources", "tools", "tasks">>

ClientFields == <<"experimental", "roots", "sampling", "elicitation", "tasks">>

Targets == {"ServerCapabilities", "ClientCapabilities"}

FieldList(t) == IF t = "ServerCapabilities" THEN ServerFields ELSE ClientFields

Fields(t) == {FieldList(t)[i] : i \in 1..Len(FieldList(t))}

\* $TN::default() of the field named f
DefaultOf(f) ==
    CASE f = "experimental" -> ExperimentalCapabilitiesDefault
      [] f \in {"logging", "completions", "sampling"} -> JsonObjectDefault
      [] f = "prompts" -> PromptsCapabilityDefault
      [] f = "resources" -> ResourcesCapabilityDefault
      [] f = "tools" -> ToolsCapabilityDefault
      [] f = "roots" -> RootsCapabilitiesDefault
      [] f = "elicitation" -> ElicitationCapabilityDefault
      [] f = "tasks" -> TasksCapabilityDefault

\* The values of type $TN a caller passes to enable_<f>_with.
ValuesOf(f) ==
    CASE f = "experimental" -> {ExperimentalCapabilities(i) : i \in 0..NumVals}
      [] f \in {"logging", "completions", "sampling"} -> {JsonObject(i) : i \in 0..NumVals}
      [] f = "prompts" -> PromptsCapability
      [] f = "resources" -> ResourcesCapability
      [] f = "tools" -> ToolsCapability
      [] f = "roots" -> RootsCapabilities
      [] f = "elicitation" -> ElicitationCapability
      [] f = "tasks" -> {TasksCapabilityDefault} \cup {TasksCapabilitySample(i) : i \in 1..NumVals}

-----------------------------------------------------------------------------
(* The builder: pure operations *)

\* <Target>::default(): the record with every field None
RecordDefault(t) == [f \in Fields(t) |-> None]

\* Mutant: the builder starts with its first field already enabled
NewBuilderFirstEnabled(t) ==
    [state |-> [f \in Fields(t) |-> f = FieldList(t)[1]],
     fields |-> [f \in Fields(t) |-> IF f = FieldList(t)[1] THEN Some(DefaultOf(f)) ELSE None]]

\* <Target>Builder::default() with the default tag: every bit false, every field None
NewBuilder(t) ==
    [state |-> [f \in Fields(t) |-> FALSE], fields |-> [f \in Fields(t) |-> None]]

\* Mutant: the value passed in is dropped and the default installed
EnableWithIgnoresValue(b, f, v) ==
    [state |-> [b.state EXCEPT ![f] = TRUE],
     fields |-> [b.fields EXCEPT ![f] = Some(DefaultOf(f))]]

\* Mutant: the other fields are not moved over from self
EnableWithDropsOthers(b, f, v) ==
    [state |-> [b.state EXCEPT ![f] = TRUE],
     fields |-> [g \in DOMAIN b.fields |-> IF g = f THEN Some(v) ELSE None]]

\* Mutant: the fields that follow f in the field list ($ft) are not moved over
EnableWithDropsTail(b, f, v) ==
    LET list == IF "logging" \in DOMAIN b.fields THEN ServerFields ELSE ClientFields
        at(g) == CHOOSE i \in 1..Len(list) : list[i] = g
    IN  [state |-> [b.state EXCEPT ![f] = TRUE],
         fields |-> [g \in DOMAIN b.fields |->
                       IF g = f THEN Some(v)
                       ELSE IF at(g) > at(f) THEN None ELSE b.fields[g]]]

\* Mutant: the field is set and the tag bit left as it was
EnableWithKeepsTag(b, f, v) ==
    [state |-> b.state, fields |-> [b.fields EXCEPT ![f] = Some(v)]]

\* enable_<f>_with(self, v): every field but f moved over, f set, f's tag bit true
EnableWith(b, f, v) ==
    [state |-> [b.state EXCEPT ![f] = TRUE], fields |-> [b.fields EXCEPT ![f] = Some(v)]]

\* Mutant: the tag bit is flipped and the field left as it was
EnableTagOnly(b, f) == [b EXCEPT !.state[f] = TRUE]

\* enable_<f>(self)
Enable(b, f) == EnableWith(b, f, DefaultOf(f))

\* Mutant: the last field of the list is not copied into the record
BuildSkipsLast(b) == [b.fields EXCEPT !["tasks"] = None]

\* Mutant: a field that is None is built as its default value
BuildFillsDefaults(b) ==
    [f \in DOMAIN b.fields |-> IF IsSome(b.fields[f]) THEN b.fields[f] ELSE Some(DefaultOf(f))]

\* build(self): the record of the builder's Option values
Build(b) == b.fields

\* The conditional refinement methods
ServerRefinements ==
    {"enable_tool_list_changed", "enable_prompts_list_changed",
     "enable_resources_list_changed", "enable_resources_subscribe"}

ClientRefinements ==
    {"enable_roots_list_changed", "enable_elicitation_url_mode",
     "enable_elicitation_schema_validation"}

Refinements(t) == IF t = "ServerCapabilities" THEN ServerRefinements ELSE ClientRefinements

\* The field whose tag bit is fixed to true in the impl block that holds r
Gate(r) ==
    CASE r = "enable_tool_list_changed" -> "tools"
      [] r = "enable_prompts_list_changed" -> "prompts"
      [] r \in {"enable_resources_list_changed", "enable_resources_subscribe"} -> "resources"
      [] r = "enable_roots_list_changed" -> "roots"
      [] r \in {"enable_elicitation_url_mode", "enable_elicitation_schema_validation"}
           -> "elicitation"

\* Mutant: the flag is set in a fresh default value, not in c
RefineValueFromDefault(r, c) ==
    LET d == DefaultOf(Gate(r))
    IN  CASE r = "enable_resources_subscribe" -> [d EXCEPT !.subscribe = Some(TRUE)]
          [] r = "enable_elicitation_url_mode"
               -> [d EXCEPT !.url = Some(UrlElicitationCapabilityDefault)]
          [] r = "enable_elicitation_schema_validation"
               -> [d EXCEPT !.schema_validation = Some(TRUE)]
          [] OTHER -> [d EXCEPT !.list_changed = Some(TRUE)]

\* Mutant: a flag that is already set is cleared
RefineValueToggle(r, c) ==
    LET flip(o, v) == IF IsSome(o) THEN None ELSE Some(v)
    IN  CASE r = "enable_resources_subscribe" -> [c EXCEPT !.subscribe = flip(@, TRUE)]
          [] r = "enable_elicitation_url_mode"
               -> [c EXCEPT !.url = flip(@, UrlElicitationCapabilityDefault)]
          [] r = "enable_elicitation_schema_validation"
               -> [c EXCEPT !.schema_validation = flip(@, TRUE)]
          [] OTHER -> [c EXCEPT !.list_changed = flip(@, TRUE)]

\* What r assigns inside the capability value c
RefineValue(r, c) ==
    CASE r \in {"enable_tool_list_changed", "enable_prompts_list_changed",
                "enable_resources_list_changed", "enable_roots_list_changed"}
           -> [c EXCEPT !.list_changed = Some(TRUE)]
      [] r = "enable_resources_subscribe" -> [c EXCEPT !.subscribe = Some(TRUE)]
      [] r = "enable_elicitation_url_mode"
           -> [c EXCEPT !.url = Some(UrlElicitationCapabilityDefault)]
      [] r = "enable_elicitation_schema_validation"
           -> [c EXCEPT !.schema_validation = Some(TRUE)]

\* Mutant: enable_resources_subscribe sets the flag of enable_resources_list_changed
RefineWrongFlag(b, r) ==
    LET q == IF r = "enable_resources_subscribe" THEN "enable_resources_list_changed" ELSE r
    IN  IF IsSome(b.fields[Gate(r)])
        THEN [b EXCEPT !.fields[Gate(r)] = Some(RefineValue(q, Unwrap(b.fields[Gate(r)])))]
        ELSE b

\* Mutant: the refinement returns self as it was
RefineNoOp(b, r) == b

\* r(mut self): if let Some(c) = self.<gate>.as_mut() { c.<flag> = Some(..) }; self
Refine(b, r) ==
    IF IsSome(b.fields[Gate(r)])
    THEN [b EXCEPT !.fields[Gate(r)] = Some(RefineValue(r, Unwrap(b.fields[Gate(r)])))]
    ELSE b

\* Mutant: enable_elicitation_form_only installs the default value
EnableElicitationFormOnlyDefault(b) == EnableWith(b, "elicitation", ElicitationCapabilityDefault)

\* enable_elicitation_form_only / enable_elicitation_both
EnableElicitationFormOnly(b) == EnableWith(b, "elicitation", form_only)

\* Mutant: enable_elicitation_both sets the field and keeps the tag as it was
EnableElicitationBothKeepsTag(b) == [b EXCEPT !.fields["elicitation"] = Some(both)]

EnableElicitationBoth(b) == EnableWith(b, "elicitation", both)

-----------------------------------------------------------------------------
(* The wire form: derive(Serialize, Deserialize) with rename_all =          *)
(* "camelCase" and skip_serializing_if = "Option::is_none".  A JSON object  *)
(* is a function from its keys; a JsonObject or a map is its own JSON.      *)

\* rename_all = "camelCase"
CamelCase(n) ==
    CASE n = "list_changed" -> "listChanged"
      [] n = "schema_validation" -> "schemaValidation"
      [] OTHER -> n

\* The field a key names
SnakeCase(k) ==
    CASE k = "listChanged" -> "list_changed"
      [] k = "schemaValidation" -> "schema_validation"
      [] OTHER -> k

\* The fields whose type is a map, serialized as the JSON object it is
MapFields == {"experimental", "logging", "completions", "sampling"}

\* Serialize of a struct of Option<bool> / Option<map> fields: the None fields are skipped
SerializeStruct(c) ==
    [k \in {CamelCase(n) : n \in {m \in DOMAIN c : IsSome(c[m])}} |-> Unwrap(c[SnakeCase(k)])]

\* Deserialize of such a struct with the fields names: a missing key is None
DeserializeStruct(j, names) ==
    [n \in names |-> IF CamelCase(n) \in DOMAIN j THEN Some(j[CamelCase(n)]) ELSE None]

\* Serialize of ElicitationCapability: form is a nested struct, url an empty object
SerializeElicitation(c) ==
    [k \in {CamelCase(n) : n \in {m \in DOMAIN c : IsSome(c[m])}} |->
       CASE k = "form" -> SerializeStruct(Unwrap(c.form))
         [] k = "url" -> <<>>
         [] OTHER -> Unwrap(c[SnakeCase(k)])]

DeserializeElicitation(j) ==
    [form |-> IF "form" \in DOMAIN j
              THEN Some(DeserializeStruct(j["form"], {"schema_validation"}))
              ELSE None,
     url |-> IF "url" \in DOMAIN j THEN Some(UrlElicitationCapabilityDefault) ELSE None,
     schema_validation |-> IF "schemaValidation" \in DOMAIN j
                           THEN Some(j["schemaValidation"])
                           ELSE None]

\* Serialize of the value v of field f
SerializeValue(f, v) ==
    CASE f \in MapFields -> v
      [] f = "elicitation" -> SerializeElicitation(v)
      [] OTHER -> SerializeStruct(v)

\* Deserialize of the JSON j as the type of field f
DeserializeValue(f, j) ==
    CASE f \in MapFields -> j
      [] f = "elicitation" -> DeserializeElicitation(j)
      [] OTHER -> DeserializeStruct(j, DOMAIN DefaultOf(f))

\* Mutant: a field holding its type's default value is skipped like a None field
SerializeSkipsDefault(t, r) ==
    [k \in {f \in Fields(t) : IsSome(r[f]) /\ r[f] # Some(DefaultOf(f))} |->
       SerializeValue(k, Unwrap(r[k]))]

\* Serialize of the record r of type t: one key per Some field
Serialize(t, r) ==
    [k \in {f \in Fields(t) : IsSome(r[f])} |-> SerializeValue(k, Unwrap(r[k]))]

\* Deserialize of the JSON object j as the record type t
Deserialize(t, j) ==
    [f \in Fields(t) |-> IF f \in DOMAIN j THEN Some(DeserializeValue(f, j[f])) ELSE None]

-----------------------------------------------------------------------------
(* The state machine: one builder chain, ended by build() *)

\* target, builder: the record type under construction and the builder value
\* pc, record:      whether build() has consumed the builder, and what it returned
\* enables:         per field, how many enabling calls the chain has made
\* obs:             one enabling call of the chain, picked arbitrarily, with the
\*                  refinements applied to its field since:
\*                  Some([field, op, arg, refs]) or None
VARIABLES target, builder, pc, record, enables, obs

vars == <<target, builder, pc, record, enables, obs>>

Init ==
    /\ target \in Targets
    /\ builder = NewBuilder(target)
    /\ pc = "building"
    /\ record = [f \in Fields(target) |-> None]
    /\ enables = [f \in Fields(target) |-> 0]
    /\ obs = None

\* Mutant: enable_<f> exists for every tag
CanEnableAlways(b, f) == TRUE

\* The impl block of enable_<f> exists for the tag whose bit of f is false
CanEnable(b, f) == b.state[f] = FALSE

\* Mutant: the refinement exists for every tag
CanRefineAlways(b, r) == TRUE

\* The impl block of refinement r exists for the tag whose gate bit is true
CanRefine(b, r) == b.state[Gate(r)] = TRUE

\* The call op(arg) on field f is counted, and may become the observed call
Observe(f, op, arg) ==
    /\ enables' = [enables EXCEPT ![f] = @ + 1]
    /\ \E watch \in BOOLEAN :
         obs' = IF watch
                THEN Some([field |-> f, op |-> op, arg |-> arg, refs |-> {}])
                ELSE obs

EnableStep(f) ==
    /\ pc = "building"
    /\ CanEnable(builder, f)
    /\ builder' = Enable(builder, f)
    /\ Observe(f, "enable", None)
    /\ UNCHANGED <<target, pc, record>>

EnableWithStep(f, v) ==
    /\ pc = "building"
    /\ CanEnable(builder, f)
    /\ builder' = EnableWith(builder, f, v)
    /\ Observe(f, "enable_with", Some(v))
    /\ UNCHANGED <<target, pc, record>>

RefineStep(r) ==
    /\ pc = "building"
    /\ CanRefine(builder, r)
    /\ builder' = Refine(builder, r)
    /\ obs' = IF IsSome(obs) /\ Unwrap(obs).field = Gate(r)
              THEN Some([Unwrap(obs) EXCEPT !.refs = @ \cup {r}])
              ELSE obs
    /\ UNCHANGED <<target, pc, record, enables>>

EnableElicitationFormOnlyStep ==
    /\ pc = "building"
    /\ target = "ClientCapabilities"
    /\ CanEnable(builder, "elicitation")
    /\ builder' = EnableElicitationFormOnly(builder)
    /\ Observe("elicitation", "enable_elicitation_form_only", None)
    /\ UNCHANGED <<target, pc, record>>

EnableElicitationBothStep ==
    /\ pc = "building"
    /\ target = "ClientCapabilities"
    /\ CanEnable(builder, "elicitation")
    /\ builder' = EnableElicitationBoth(builder)
    /\ Observe("elicitation", "enable_elicitation_both", None)
    /\ UNCHANGED <<target, pc, record>>

BuildStep ==
    /\ pc = "building"
    /\ record' = Build(builder)
    /\ pc' = "built"
    /\ UNCHANGED <<target, builder, enables, obs>>

Next ==
    \/ \E f \in Fields(target) : EnableStep(f)
    \/ \E f \in Fields(target) : \E v \in ValuesOf(f) : EnableWithStep(f, v)
    \/ \E r \in Refinements(target) : RefineStep(r)
    \/ EnableElicitationFormOnlyStep
    \/ EnableElicitationBothStep
    \/ BuildStep

Spec == Init /\ [][Next]_vars

-----------------------------------------------------------------------------
(* What the public fields and derive(Default) of the builder add: the      *)
(* builder of any tag is Default, and every field can be assigned.  The    *)
(* assignments drawn here are those of None (builder.<f> = None, or        *)
(* builder.<f>.take()).                                                    *)

\* <Target>Builder<S>::default() for any tag S: the fields are None whatever S says
DefaultBuilder(t, s) == [state |-> s, fields |-> [f \in Fields(t) |-> None]]

InitPub ==
    /\ target \in Targets
    /\ builder \in {DefaultBuilder(target, s) : s \in [Fields(target) -> BOOLEAN]}
    /\ pc = "building"
    /\ record = [f \in Fields(target) |-> None]
    /\ enables = [f \in Fields(target) |-> 0]
    /\ obs = None

\* builder.<f> = o, on a `let mut` builder: the tag is untouched
SetFieldStep(f, o) ==
    /\ pc = "building"
    /\ builder' = [builder EXCEPT !.fields[f] = o]
    /\ UNCHANGED <<target, pc, record, enables, obs>>

NextPub ==
    \/ \E f \in Fields(target) : EnableStep(f)
    \/ \E r \in Refinements(target) : RefineStep(r)
    \/ \E f \in Fields(target) : SetFieldStep(f, None)
    \/ BuildStep

SpecPub == InitPub /\ [][NextPub]_vars

-----------------------------------------------------------------------------
(* Properties *)

Observed == Unwrap(obs)

\* C1: after any chain of enabling calls on a fresh builder and build(), a
\* field of the record is present exactly when the chain enabled it.
C1_PresentIffEnabled ==
    pc = "built" => \A f \in Fields(target) : IsSome(record[f]) <=> enables[f] > 0

C1_Witness ==
    /\ pc = "built"
    /\ \E f, g \in Fields(target) :
         /\ enables[f] > 0 /\ IsSome(record[f])
         /\ enables[g] = 0 /\ record[g] = None

\* C2: in every builder the public interface can produce, a field's tag bit is
\* true exactly when the field's Option is Some.
C2_TagIffPresent ==
    \A f \in Fields(target) : builder.state[f] <=> IsSome(builder.fields[f])

\* C3: enable_<f> and enable_<f>_with can be called exactly on the builders
\* whose tag bit of f is false, so a chain enables each field at most once.
C3_EnableOnlyWhenDisabled ==
    \A f \in Fields(target) :
      /\ enables[f] <= 1
      /\ pc = "building" =>
           /\ (ENABLED EnableStep(f)) <=> ~builder.state[f]
           /\ (ENABLED (\E v \in ValuesOf(f) : EnableWithStep(f, v))) <=> ~builder.state[f]

C3_Witness ==
    /\ pc = "building"
    /\ \E f, g \in Fields(target) :
         /\ enables[f] = 1 /\ builder.state[f]
         /\ enables[g] = 0 /\ ~builder.state[g]

\* C4: a refinement method can be called only on a builder whose governing
\* tag bit is true, and that bit is true only after the chain enabled the
\* owning capability: a refinement follows an enable of its capability.
C4_RefineOnlyWhenEnabled ==
    \A r \in Refinements(target) :
      /\ (ENABLED RefineStep(r)) => builder.state[Gate(r)]
      /\ builder.state[Gate(r)] => enables[Gate(r)] >= 1

C4_Witness ==
    /\ IsSome(obs)
    /\ Observed.refs # {}
    /\ builder.state[Observed.field]

\* The sub-flags of the capability value c of field f that are set
FlagsSet(f, c) ==
    CASE f \in {"prompts", "tools", "roots"} ->
           {n \in {"list_changed"} : c[n] = Some(TRUE)}
      [] f = "resources" ->
           {n \in {"subscribe", "list_changed"} : c[n] = Some(TRUE)}
      [] f = "elicitation" ->
           {n \in {"form", "url"} : IsSome(c[n])}
             \cup {n \in {"schema_validation"} : c[n] = Some(TRUE)}
      [] OTHER -> {}

\* C5: no step turns a tag bit from true to false, makes a present field
\* absent or clears a set sub-flag, and build() returns every present field.
C5_Monotonic ==
    [][\A f \in Fields(target) :
         /\ builder.state[f] => builder'.state[f]
         /\ IsSome(builder.fields[f]) =>
              /\ IsSome(builder'.fields[f])
              /\ FlagsSet(f, Unwrap(builder.fields[f]))
                   \subseteq FlagsSet(f, Unwrap(builder'.fields[f]))
              /\ pc' = "built" => IsSome(record'[f])]_vars

C5_Witness ==
    /\ pc = "built"
    /\ IsSome(obs)
    /\ Observed.refs # {}
    /\ IsSome(record[Observed.field])
    /\ FlagsSet(Observed.field, Unwrap(record[Observed.field])) # {}

\* The step leaves every field other than f, and every tag bit, as it was
OnlyFieldChanges(f) ==
    /\ builder'.state = builder.state
    /\ \A g \in Fields(target) \ {f} : builder'.fields[g] = builder.fields[g]

\* C6: enable_resources_subscribe sets resources.subscribe to true and leaves
\* resources.list_changed, the other fields and the tag as they were, and
\* enable_resources_list_changed does the same for list_changed; the chain
\* enable_resources().enable_resources_subscribe().build() has subscribe true
\* and list_changed absent.
C6_RefinementIsolation ==
    /\ [](pc = "built" /\ IsSome(obs) /\ Observed.field = "resources"
            /\ Observed.op = "enable" /\ Observed.refs = {"enable_resources_subscribe"}
          => record["resources"] = Some([subscribe |-> Some(TRUE), list_changed |-> None]))
    /\ [][target = "ServerCapabilities" =>
          /\ RefineStep("enable_resources_subscribe") =>
               /\ OnlyFieldChanges("resources")
               /\ Unwrap(builder'.fields["resources"]).subscribe = Some(TRUE)
               /\ Unwrap(builder'.fields["resources"]).list_changed
                    = Unwrap(builder.fields["resources"]).list_changed
          /\ RefineStep("enable_resources_list_changed") =>
               /\ OnlyFieldChanges("resources")
               /\ Unwrap(builder'.fields["resources"]).list_changed = Some(TRUE)
               /\ Unwrap(builder'.fields["resources"]).subscribe
                    = Unwrap(builder.fields["resources"]).subscribe]_vars

C6_Witness ==
    /\ pc = "built"
    /\ IsSome(obs)
    /\ Observed.field = "resources"
    /\ Observed.op = "enable"
    /\ Observed.refs = {"enable_resources_subscribe"}
    /\ Unwrap(record["resources"]).list_changed = None

\* The step is an enabling call on field f
Enabling(f) == enables'[f] = enables[f] + 1

\* C7: enable_<f> and enable_<f>_with change the value and the tag bit of f
\* only: every other field's value, sub-flags set by earlier refinements
\* included, and every other tag bit are those of the receiver.
C7_EnableFrame ==
    [][\A f \in Fields(target) :
         Enabling(f) =>
           \A g \in Fields(target) \ {f} :
             /\ builder'.fields[g] = builder.fields[g]
             /\ builder'.state[g] = builder.state[g]]_vars

C7_Witness ==
    /\ target = "ClientCapabilities"
    /\ IsSome(obs)
    /\ Observed.field = "roots"
    /\ Observed.refs = {"enable_roots_list_changed"}
    /\ builder.fields["roots"] = Some([list_changed |-> Some(TRUE)])
    /\ enables["sampling"] = 1
    /\ IsSome(builder.fields["sampling"])

\* C8: enable_<f>() and then build(), with enables of other fields in between
\* and no refinement of f, gives a record whose f is present and the default
\* value of f's type.
C8_EnableGivesDefault ==
    (pc = "built" /\ IsSome(obs) /\ Observed.op = "enable" /\ Observed.refs = {})
      => record[Observed.field] = Some(DefaultOf(Observed.field))

C8_Witness ==
    /\ pc = "built"
    /\ IsSome(obs)
    /\ Observed.op = "enable"
    /\ Observed.refs = {}
    /\ \E g \in Fields(target) \ {Observed.field} : enables[g] = 1
    /\ record[Observed.field] = Some(DefaultOf(Observed.field))

\* C9: enable_<f>_with(v) and then build(), with enables of other fields in
\* between and no refinement of f, gives a record whose f is present and v.
C9_EnableWithGivesValue ==
    (pc = "built" /\ IsSome(obs) /\ Observed.op = "enable_with" /\ Observed.refs = {})
      => record[Observed.field] = Observed.arg

C9_Witness ==
    /\ pc = "built"
    /\ IsSome(obs)
    /\ Observed.op = "enable_with"
    /\ Observed.refs = {}
    /\ Observed.arg # Some(DefaultOf(Observed.field))
    /\ \E g \in Fields(target) \ {Observed.field} : enables[g] = 1
    /\ record[Observed.field] = Observed.arg

\* C10: from a builder with two distinct fields disabled, enabling them in
\* either order, with the same values, builds equal records.
C10_EnableCommutes ==
    (pc = "building" /\ obs = None) =>
      \A f, g \in Fields(target) :
        (f # g /\ CanEnable(builder, f) /\ CanEnable(builder, g)) =>
          /\ Build(Enable(Enable(builder, f), g)) = Build(Enable(Enable(builder, g), f))
          /\ \A v \in ValuesOf(f) : \A w \in ValuesOf(g) :
               Build(EnableWith(EnableWith(builder, f, v), g, w))
                 = Build(EnableWith(EnableWith(builder, g, w), f, v))

C10_Witness ==
    /\ pc = "built"
    /\ \E f, g \in Fields(target) :
         /\ f # g
         /\ enables[f] = 1 /\ enables[g] = 1
         /\ record = Build(EnableWith(EnableWith(NewBuilder(target), g, Unwrap(record[g])),
                                      f, Unwrap(record[f])))
         /\ record[f] # Some(DefaultOf(f))
         /\ record[g] # Some(DefaultOf(g))

\* C11: build() can be called in every combination of tag bits and returns,
\* for every field, the builder's current Option value; the tag bits are
\* those the enabling calls set, build() changes none.
C11_BuildCopiesFields ==
    /\ pc = "building" => ENABLED BuildStep
    /\ pc = "built" =>
         \A f \in Fields(target) :
           /\ record[f] = builder.fields[f]
           /\ builder.state[f] <=> enables[f] = 1

C11_Witness ==
    /\ pc = "built"
    /\ \E f, g \in Fields(target) :
         /\ builder.state[f] /\ IsSome(record[f]) /\ record[f] # Some(DefaultOf(f))
         /\ ~builder.state[g] /\ record[g] = None

\* No enabling call has been made in the chain
Fresh == \A f \in Fields(target) : enables[f] = 0

\* C12: a freshly created builder has every tag bit false and every field
\* None, and its build() is the record type's default, every field absent.
C12_FreshBuildsDefault ==
    Fresh =>
      /\ \A f \in Fields(target) : ~builder.state[f] /\ builder.fields[f] = None
      /\ pc = "built" => record = RecordDefault(target)

C12_Witness ==
    /\ Fresh
    /\ pc = "built"
    /\ record = RecordDefault(target)

\* The chain of the doc example and of test_builder
DocExampleBuilder ==
    Refine(
      Enable(Enable(Enable(Enable(Enable(NewBuilder("ServerCapabilities"), "logging"),
                                  "experimental"), "prompts"), "resources"), "tools"),
      "enable_tool_list_changed")

DocExampleRecord ==
    [experimental |-> Some(ExperimentalCapabilitiesDefault),
     logging |-> Some(JsonObjectDefault),
     completions |-> None,
     prompts |-> Some([list_changed |-> None]),
     resources |-> Some([subscribe |-> None, list_changed |-> None]),
     tools |-> Some([list_changed |-> Some(TRUE)]),
     tasks |-> None]

\* C13: builder().enable_logging().enable_experimental().enable_prompts()
\* .enable_resources().enable_tools().enable_tool_list_changed().build() has
\* logging and experimental present and empty, prompts and resources present
\* with no sub-flag, tools = {list_changed: true}, completions and tasks absent;
\* a chain that made these calls, whatever their order, builds this record.
C13_DocExample ==
    /\ Build(DocExampleBuilder) = DocExampleRecord
    /\ (/\ pc = "built"
        /\ target = "ServerCapabilities"
        /\ \A f \in Fields(target) : builder.state[f] <=> DocExampleBuilder.state[f]
        /\ \A f \in Fields(target) :
             IsSome(builder.fields[f]) /\ f # "tools" => builder.fields[f] = Some(DefaultOf(f))
        /\ IsSome(obs) /\ Observed.field = "tools" /\ Observed.op = "enable"
        /\ Observed.refs = {"enable_tool_list_changed"})
       => record = DocExampleRecord

C13_Witness ==
    /\ pc = "built"
    /\ target = "ServerCapabilities"
    /\ builder = DocExampleBuilder
    /\ IsSome(obs) /\ Observed.field = "tools" /\ Observed.op = "enable"
    /\ Observed.refs = {"enable_tool_list_changed"}
    /\ record = DocExampleRecord

\* C14: enable_elicitation() and then enable_elicitation_url_mode() enables
\* both modes: the built elicitation value has form and url present.
C14_UrlModeGivesBothModes ==
    (/\ pc = "built"
     /\ IsSome(obs)
     /\ Observed.field = "elicitation"
     /\ Observed.op = "enable"
     /\ Observed.refs = {"enable_elicitation_url_mode"})
      => /\ supports_form(Unwrap(record["elicitation"]))
         /\ supports_url(Unwrap(record["elicitation"]))

\* C15: on a client builder with elicitation disabled,
\* enable_elicitation_form_only() flips the elicitation tag bit only, leaves
\* the other fields as they were, and build() then has elicitation =
\* {form: default, url: absent, schema_validation: absent}.
C15_FormOnly ==
    /\ (/\ target = "ClientCapabilities"
        /\ pc = "building"
        /\ obs = None
        /\ CanEnable(builder, "elicitation"))
       => LET b == EnableElicitationFormOnly(builder)
          IN  /\ b.state = [builder.state EXCEPT !["elicitation"] = TRUE]
              /\ \A g \in Fields(target) \ {"elicitation"} :
                   Build(b)[g] = Build(builder)[g]
              /\ Build(b)["elicitation"]
                   = Some([form |-> Some([schema_validation |-> None]),
                           url |-> None, schema_validation |-> None])
    /\ (/\ pc = "built"
        /\ IsSome(obs)
        /\ Observed.op = "enable_elicitation_form_only"
        /\ Observed.refs = {})
       => record["elicitation"]
            = Some([form |-> Some([schema_validation |-> None]),
                    url |-> None, schema_validation |-> None])

C15_Witness ==
    /\ pc = "built"
    /\ IsSome(obs)
    /\ Observed.op = "enable_elicitation_form_only"
    /\ Observed.refs = {}
    /\ \E g \in Fields(target) \ {"elicitation"} : IsSome(record[g])
    /\ Unwrap(record["elicitation"]).url = None
    /\ IsSome(Unwrap(record["elicitation"]).form)

\* C16: form_only() has form present and url absent, url_only() has url
\* present and form absent, both() has both, all three have schema_validation
\* absent; supports_form / supports_url hold exactly when form / url is
\* present, neither for the default value.
C16_ElicitationConstructors ==
    /\ form_only.form # None /\ form_only.url = None
    /\ url_only.url # None /\ url_only.form = None
    /\ both.form # None /\ both.url # None
    /\ \A c \in {form_only, url_only, both} : c.schema_validation = None
    /\ supports_form(form_only) /\ ~supports_url(form_only)
    /\ ~supports_form(url_only) /\ supports_url(url_only)
    /\ supports_form(both) /\ supports_url(both)
    /\ ~supports_form(ElicitationCapabilityDefault)
    /\ ~supports_url(ElicitationCapabilityDefault)
    /\ (target = "ClientCapabilities" /\ IsSome(builder.fields["elicitation"])) =>
         LET c == Unwrap(builder.fields["elicitation"])
         IN  /\ supports_form(c) <=> c.form # None
             /\ supports_url(c) <=> c.url # None

C16_Witness ==
    /\ pc = "built"
    /\ target = "ClientCapabilities"
    /\ IsSome(obs)
    /\ Observed.op = "enable_with"
    /\ Observed.arg = Some(url_only)
    /\ record["elicitation"] = Some(url_only)
    /\ supports_url(Unwrap(record["elicitation"]))
    /\ ~supports_form(Unwrap(record["elicitation"]))

\* C17: for every record a builder chain produces, deserialize(serialize(r))
\* is r, and the serialized object has a key exactly for the present fields,
\* a present capability without sub-flags included.
C17_SerdeRoundTrip ==
    pc = "built" =>
      /\ Deserialize(target, Serialize(target, record)) = record
      /\ DOMAIN Serialize(target, record) = {f \in Fields(target) : IsSome(record[f])}

C17_Witness ==
    /\ pc = "built"
    /\ \E f \in Fields(target) \ MapFields :
         /\ record[f] = Some(DefaultOf(f))
         /\ Serialize(target, record)[f] = <<>>
    /\ \E g \in Fields(target) \ MapFields :
         /\ IsSome(record[g])
         /\ Serialize(target, record)[g] # <<>>
    /\ \E h \in Fields(target) : record[h] = None
    /\ Deserialize(target, Serialize(target, record)) = record

\* The number of tag bits of b that are true
TagBits(b) == Cardinality({f \in DOMAIN b.state : b.state[f]})

\* The number of enabling calls made on the first n fields of the target
RECURSIVE EnableCount(_)
EnableCount(n) ==
    IF n = 0 THEN 0 ELSE enables[FieldList(target)[n]] + EnableCount(n - 1)

AllEnabled == \A f \in Fields(target) : builder.state[f]

\* C18: every enabling call adds one true tag bit, so a chain holds at most
\* 7 enabling calls on a server builder and 5 on a client builder; with
\* every bit true no enabling call is available, and the refinements and
\* build() are.
C18_NoCycle ==
    /\ EnableCount(Len(FieldList(target))) = TagBits(builder)
    /\ EnableCount(Len(FieldList(target))) <= (IF target = "ServerCapabilities" THEN 7 ELSE 5)
    /\ (pc = "building" /\ AllEnabled) =>
         /\ \A f \in Fields(target) :
              /\ ~ENABLED EnableStep(f)
              /\ \A v \in ValuesOf(f) : ~ENABLED EnableWithStep(f, v)
         /\ ~ENABLED EnableElicitationFormOnlyStep
         /\ ~ENABLED EnableElicitationBothStep
         /\ \A r \in Refinements(target) : ENABLED RefineStep(r)
         /\ ENABLED BuildStep

C18_Witness ==
    /\ pc = "building"
    /\ target = "ServerCapabilities"
    /\ AllEnabled
    /\ EnableCount(Len(FieldList(target))) = 7
    /\ builder.fields["resources"] # Some(DefaultOf("resources"))

\* C19: on a builder reached by builder operations, a refinement applied
\* twice gives the builder that applying it once gives, and two refinements
\* applied in either order build the same record.
C19_RefineIdempotentCommutes ==
    (pc = "building" /\ obs = None) =>
      \A r1 \in Refinements(target) :
        CanRefine(builder, r1) =>
          /\ Refine(Refine(builder, r1), r1) = Refine(builder, r1)
          /\ \A r2 \in Refinements(target) :
               CanRefine(builder, r2) =>
                 Build(Refine(Refine(builder, r1), r2))
                   = Build(Refine(Refine(builder, r2), r1))

C19_Witness ==
    /\ pc = "building"
    /\ obs = None
    /\ \E r1, r2 \in Refinements(target) :
         /\ r1 # r2
         /\ Gate(r1) = Gate(r2)
         /\ CanRefine(builder, r1)
         /\ Refine(builder, r1) # builder
         /\ Refine(Refine(builder, r1), r2) # Refine(builder, r1)
         /\ Refine(Refine(builder, r1), r2) # Refine(builder, r2)
    /\ \E r3, r4 \in Refinements(target) :
         /\ Gate(r3) # Gate(r4)
         /\ CanRefine(builder, r3)
         /\ CanRefine(builder, r4)
         /\ Refine(builder, r3) # builder
         /\ Refine(Refine(builder, r3), r4) # Refine(builder, r3)

\* The value the observed enabling call of elicitation installed
InstalledElicitation ==
    CASE Observed.op = "enable" -> ElicitationCapabilityDefault
      [] Observed.op = "enable_with" -> Unwrap(Observed.arg)
      [] Observed.op = "enable_elicitation_form_only" -> form_only
      [] Observed.op = "enable_elicitation_both" -> both

\* The value c after the refinements refs of elicitation
RefinedElicitation(c, refs) ==
    LET u == IF "enable_elicitation_url_mode" \in refs
             THEN RefineValue("enable_elicitation_url_mode", c)
             ELSE c
    IN  IF "enable_elicitation_schema_validation" \in refs
        THEN RefineValue("enable_elicitation_schema_validation", u)
        ELSE u

\* C20: each of the four calls that enable elicitation is available exactly
\* while the elicitation tag bit is false and sets it, so a chain holds at
\* most one of them, and the value it installed is changed by refinements
\* only.
C20_OneElicitationEnable ==
    target = "ClientCapabilities" =>
      /\ enables["elicitation"] <= 1
      /\ builder.state["elicitation"] <=> enables["elicitation"] = 1
      /\ pc = "building" =>
           /\ ENABLED EnableStep("elicitation") <=> ~builder.state["elicitation"]
           /\ \A v \in ValuesOf("elicitation") :
                ENABLED EnableWithStep("elicitation", v) <=> ~builder.state["elicitation"]
           /\ ENABLED EnableElicitationFormOnlyStep <=> ~builder.state["elicitation"]
           /\ ENABLED EnableElicitationBothStep <=> ~builder.state["elicitation"]
      /\ (IsSome(obs) /\ Observed.field = "elicitation") =>
           builder.fields["elicitation"]
             = Some(RefinedElicitation(InstalledElicitation, Observed.refs))

C20_Witness ==
    /\ target = "ClientCapabilities"
    /\ pc = "built"
    /\ IsSome(obs)
    /\ Observed.field = "elicitation"
    /\ Observed.op = "enable_elicitation_both"
    /\ Observed.refs = {"enable_elicitation_schema_validation"}
    /\ enables["elicitation"] = 1
    /\ record["elicitation"] = Some([both EXCEPT !.schema_validation = Some(TRUE)])

\* C21: from a client builder whose elicitation tag bit is false,
\* enable_elicitation_form_only() then enable_elicitation_url_mode() builds
\* the record that enable_elicitation_both() builds, with elicitation =
\* { form: present, url: present, schema_validation: absent }.
C21_FormOnlyThenUrlIsBoth ==
    /\ (target = "ClientCapabilities" /\ pc = "building" /\ obs = None
        /\ CanEnable(builder, "elicitation")) =>
         LET chained == Build(Refine(EnableElicitationFormOnly(builder),
                                     "enable_elicitation_url_mode"))
         IN  /\ CanRefine(EnableElicitationFormOnly(builder), "enable_elicitation_url_mode")
             /\ chained = Build(EnableElicitationBoth(builder))
             /\ chained["elicitation"]
                  = Some([form |-> Some(FormElicitationCapabilityDefault),
                          url |-> Some(UrlElicitationCapabilityDefault),
                          schema_validation |-> None])
    /\ (pc = "built" /\ IsSome(obs) /\ Observed.field = "elicitation"
        /\ Observed.op = "enable_elicitation_form_only"
        /\ Observed.refs = {"enable_elicitation_url_mode"}) =>
         record = Build(EnableElicitationBoth([builder EXCEPT !.state["elicitation"] = FALSE]))

C21_Witness ==
    /\ target = "ClientCapabilities"
    /\ pc = "built"
    /\ IsSome(obs)
    /\ Observed.field = "elicitation"
    /\ Observed.op = "enable_elicitation_form_only"
    /\ Observed.refs = {"enable_elicitation_url_mode"}
    /\ supports_form(Unwrap(record["elicitation"]))
    /\ supports_url(Unwrap(record["elicitation"]))
    /\ \E f \in Fields(target) \ {"elicitation"} : IsSome(record[f])

====
